---- MODULE Spec2Model ----
(***************************************************************************)
(* A model of jellyfin-rehash: rehash.py (recomputing the content-addressed *)
(* guids of a library.db and propagating the change) and prune-metadata.py *)
(* (deleting the Items of some types together with their ancestor chain).  *)
(*                                                                         *)
(* Text is a sequence of one-character strings, so that startswith, LIKE,  *)
(* Replace, split and join are computed character by character. A guid is  *)
(* a positive integer (the digest), its hex form is the 32 digit text      *)
(* Hex(guid); the SQL NULL of a guid column is 0 and of a text column is   *)
(* NullStr.                                                                *)
(***************************************************************************)
EXTENDS Integers, Sequences, FiniteSets, TLC

VARIABLES
    store,            \* library.db as committed: what a new connection would read
    db,               \* library.db as seen through the run's connection
    store0,           \* history: the committed content when the current run started
    fs,               \* the physical paths that exist below the metadata directory
    args,             \* the command line of the run
    pc,               \* the position of the run in rehash() / prune_metadata()
    run,              \* 1 for the first run, 2 for a second run with the same arguments
    guid_updates,     \* rehash: the change set, in scan order
    image_updates,    \* rehash: (Images, guid) pairs to write
    move_image_dirs,  \* rehash: (from, to) physical paths to move
    unresolved_parents,   \* prune: the frontier of parent guids
    delete_parent_guids,  \* prune: the guids recorded for deletion
    changed_types,        \* prune: type -> count
    iteration,            \* prune: the number of the pass of the while loop
    referenced_paths,     \* prune: the Item and image paths collected for removal
    applied,              \* history: the change set the first run applied
    first                 \* history: how the first run began and ended

vars == <<store, db, store0, fs, args, pc, run, guid_updates, image_updates,
          move_image_dirs, unresolved_parents, delete_parent_guids, changed_types,
          iteration, referenced_paths, applied, first>>

rehashLocals == <<guid_updates, image_updates, move_image_dirs>>
pruneLocals == <<unresolved_parents, delete_parent_guids, changed_types, iteration,
                 referenced_paths>>

(***************************************************************************)
(* Bounds of the model.                                                    *)
(***************************************************************************)
MaxItems == 2        \* rows of TypedBaseItems in a migration
MaxPruneItems == 4   \* rows of TypedBaseItems in a pruning run
MaxCount == 4        \* the counts of changed_types saturate here, the pass number wraps
MaxImages == 2       \* entries of an Images value

NULL == 0
NullStr == <<"NULL">>

(***************************************************************************)
(* Text helpers.                                                           *)
(***************************************************************************)
UpperChars == <<"A","B","C","D","E","F","G","H","I","J","K","L","M",
                "N","O","P","Q","R","S","T","U","V","W","X","Y","Z">>
LowerChars == <<"a","b","c","d","e","f","g","h","i","j","k","l","m",
                "n","o","p","q","r","s","t","u","v","w","x","y","z">>

LowerChar(c) ==
    IF \E i \in DOMAIN UpperChars : UpperChars[i] = c
    THEN LowerChars[CHOOSE i \in DOMAIN UpperChars : UpperChars[i] = c]
    ELSE c

\* str.lower()
LowerStr(s) == [i \in DOMAIN s |-> LowerChar(s[i])]

\* str.startswith(prefix)
StartsWith(s, prefix) ==
    /\ Len(prefix) <= Len(s)
    /\ SubSeq(s, 1, Len(prefix)) = prefix

\* whether sub occurs in s at position i
OccursAt(s, sub, i) ==
    /\ i + Len(sub) - 1 <= Len(s)
    /\ SubSeq(s, i, i + Len(sub) - 1) = sub

\* Python's `sub in s`
Contains(s, sub) == \E i \in 1..(Len(s) + 1) : OccursAt(s, sub, i)

\* the first position from i on at which sub occurs in s, 0 when there is none
NextOccurrence(s, sub, i) ==
    LET at == {k \in i..Len(s) : OccursAt(s, sub, k)}
    IN IF at = {} THEN 0 ELSE CHOOSE k \in at : \A j \in at : k <= j

\* str.replace(old, new) and SQL Replace(s, old, new): every occurrence, scanning
\* from the left, case sensitive (old is never empty here)
RECURSIVE ReplaceFrom(_, _, _, _)
ReplaceFrom(s, old, new, i) ==
    LET k == IF Len(old) > 0 THEN NextOccurrence(s, old, i) ELSE 0
    IN IF k = 0 THEN SubSeq(s, i, Len(s))
       ELSE SubSeq(s, i, k - 1) \o new \o ReplaceFrom(s, old, new, k + Len(old))

Replace(s, old, new) == ReplaceFrom(s, old, new, 1)

\* SQL `s like prefix || '%'`: a prefix match that ignores ASCII case; NULL matches nothing
Like(s, prefix) ==
    /\ s # NullStr
    /\ StartsWith(LowerStr(s), LowerStr(prefix))

\* str.lstrip('/\\')
RECURSIVE LStripSep(_)
LStripSep(s) ==
    IF s # <<>> /\ Head(s) \in {"/", "\\"} THEN LStripSep(Tail(s)) ELSE s

\* str.split(sep) for a one-character sep: the pieces, empty ones included
RECURSIVE SplitFrom(_, _, _)
SplitFrom(s, sep, i) ==
    LET k == NextOccurrence(s, <<sep>>, i)
    IN IF k = 0 THEN <<SubSeq(s, i, Len(s))>>
       ELSE <<SubSeq(s, i, k - 1)>> \o SplitFrom(s, sep, k + 1)

Split(s, sep) == SplitFrom(s, sep, 1)

\* sep.join(parts)
RECURSIVE Join(_, _)
Join(parts, sep) ==
    IF parts = <<>> THEN <<>>
    ELSE IF Len(parts) = 1 THEN parts[1]
    ELSE parts[1] \o <<sep>> \o Join(Tail(parts), sep)

\* str.split('*') without the limit, cut to two pieces
SplitFirstTwo(s, sep) ==
    IF Len(Split(s, sep)) >= 2 THEN SubSeq(Split(s, sep), 1, 2) ELSE Split(s, sep)

\* str.split('*', 1): <<path, attrs>>, or a single piece when there is no '*'
SplitOnce(s, sep) ==
    IF \E i \in DOMAIN s : s[i] = sep
    THEN LET i == CHOOSE k \in DOMAIN s : s[k] = sep /\ \A j \in 1..(k-1) : s[j] # sep
         IN <<SubSeq(s, 1, i - 1), SubSeq(s, i + 1, Len(s))>>
    ELSE <<s>>

(***************************************************************************)
(* Guids. md5 is modelled as a collision-free digest: the base-HashBase    *)
(* number spelled by the characters of the hashed text.                    *)
(***************************************************************************)
HashAlphabet == <<"/", "\\", "a", "A", "b", "m", "o", "c", "F", "x">>
HashBase == Len(HashAlphabet) + 1

CharCode(c) ==
    IF \E i \in DOMAIN HashAlphabet : HashAlphabet[i] = c
    THEN CHOOSE i \in DOMAIN HashAlphabet : HashAlphabet[i] = c
    ELSE 0

RECURSIVE md5utf16(_)
md5utf16(string) ==
    IF string = <<>> THEN 0
    ELSE md5utf16(SubSeq(string, 1, Len(string) - 1)) * HashBase
         + CharCode(string[Len(string)])

\* hash(ProgramDataPath, key, typename, CaseSensitive)
hash(ProgramDataPath, key, typename, CaseSensitive) ==
    LET k1 == IF StartsWith(key, ProgramDataPath)
              THEN Replace(LStripSep(SubSeq(key, Len(ProgramDataPath) + 1, Len(key))),
                           <<"/">>, <<"\\">>)
              ELSE key
        k2 == IF ~CaseSensitive THEN LowerStr(k1) ELSE k1
    IN md5utf16(typename \o k2)

HexLen == 32
HexDigits == <<"0","1","2","3","4","5","6","7","8","9","a","b","c","d","e","f">>

\* UUID.hex: 32 lowercase hex digits (the digest's low digit first, zero filled)
RECURSIVE HexFrom(_, _)
HexFrom(n, k) ==
    IF k = 0 THEN <<>>
    ELSE <<HexDigits[(n % 16) + 1]>> \o HexFrom(n \div 16, k - 1)

Hex(guid) == HexFrom(guid, HexLen)

(***************************************************************************)
(* The store. A row of TypedBaseItems is                                   *)
(*   [guid, type, ParentId, Path, Images, PresentationUniqueKey]           *)
(* and a row of AncestorIds is [ItemId, AncestorId]. TypedBaseItems is a   *)
(* sequence in rowid order (the order a select returns it in); guid is its *)
(* primary key. idx tells whether the idx_* indexes of db_prepare exist.   *)
(***************************************************************************)
MediaPath == <<"/", "m">>            \* args.media_path
OldPath == <<"/", "o">>              \* an --old-paths value
ProgramData == <<"/", "c">>          \* args.programdata
RealMetadataPath == <<"/", "r">>     \* RealRoot / args.metadata
MetadataToken == <<"%","M","e","t","a","d","a","t","a","P","a","t","h","%">>
MetadataDir == <<"/","m","e","t","a","d","a","t","a">>

Folder == <<"F">>                    \* a type name (hashed in front of the key)

Row(g, t, p, path, imgs, puk) ==
    [guid |-> g, type |-> t, ParentId |-> p, Path |-> path, Images |-> imgs,
     PresentationUniqueKey |-> puk]

UniqueGuids(items) ==
    \A i, j \in DOMAIN items : items[i].guid = items[j].guid => i = j

(***************************************************************************)
(* sqlite3.connect(DBPath): the connection opens a transaction before the  *)
(* first UPDATE/DELETE and keeps it open until commit(); a statement's     *)
(* effect reaches the committed store at once only in autocommit mode.     *)
(***************************************************************************)
AutocommitOn == TRUE

Autocommit == FALSE

\* what the committed store holds after a statement left the connection at `d`
Persist(st, d) == IF Autocommit THEN d ELSE st

(***************************************************************************)
(* migrate_paths(c, old_path, new_path)                                    *)
(***************************************************************************)
migrate_paths(items, old_path, new_path) ==
    [i \in DOMAIN items |->
        [items[i] EXCEPT
            !.Path = IF Like(@, old_path) THEN Replace(@, old_path, new_path) ELSE @,
            !.Images = IF Like(@, old_path) THEN Replace(@, old_path, new_path) ELSE @]]

RECURSIVE MigrateAll(_, _, _)
MigrateAll(items, old_paths, new_path) ==
    IF old_paths = <<>> THEN items
    ELSE MigrateAll(migrate_paths(items, Head(old_paths), new_path),
                    Tail(old_paths), new_path)

(***************************************************************************)
(* The scan loop of rehash(): the change set and the image bookkeeping.    *)
(***************************************************************************)
NewGuid(a, row) == hash(a.programdata, row.Path, row.type, a.case_sensitive)

\* `if new_guid != guid`
AlwaysChanged(guid, new_guid) == TRUE

Changed(guid, new_guid) == new_guid # guid

ChangeRecord(row, new_guid) ==
    [old |-> row.guid, new |-> new_guid, type |-> row.type]

Subpath(guid) == <<"/">> \o SubSeq(Hex(guid), 1, 2) \o <<"/">> \o Hex(guid)

\* `os.path.exists(new_physical_path)` for an entry whose old file is missing: the
\* image was moved by an earlier run
NeverMoved(new_physical_path, fsys) == FALSE

AlreadyMoved(new_physical_path, fsys) == new_physical_path \in fsys

\* one entry of Images: what is appended to imgs_result (keep, text), whether it
\* sets needs_update, and the move it schedules (<<>> for none)
ImageEntry(a, img, guid, new_guid, fsys) ==
    LET parts == SplitOnce(img, "*")
        old_img_path == parts[1]
        attrs == parts[2]
        meta == StartsWith(old_img_path, MetadataToken)
        prog == StartsWith(old_img_path, a.programdata \o MetadataDir)
        old_physical_path ==
            IF meta THEN Replace(old_img_path, MetadataToken, RealMetadataPath)
            ELSE Replace(old_img_path, a.programdata \o MetadataDir, RealMetadataPath)
        new_img_path == Replace(old_img_path, Subpath(guid), Subpath(new_guid))
        new_physical_path == Replace(old_physical_path, Subpath(guid), Subpath(new_guid))
        verbatim == [keep |-> TRUE, text |-> img, upd |-> FALSE, move |-> <<>>]
        rewritten == new_img_path \o <<"*">> \o attrs
    IN IF ~meta /\ ~prog THEN verbatim
       ELSE IF guid # new_guid /\ ~Contains(old_img_path, Hex(guid)) THEN verbatim
       ELSE IF old_physical_path \notin fsys
            THEN IF ~AlreadyMoved(new_physical_path, fsys)
                 THEN [keep |-> FALSE, text |-> img, upd |-> FALSE, move |-> <<>>]
                 ELSE [keep |-> TRUE, text |-> rewritten, upd |-> TRUE, move |-> <<>>]
       ELSE IF old_physical_path # new_physical_path
            THEN [keep |-> TRUE, text |-> rewritten, upd |-> TRUE,
                  move |-> <<<<old_physical_path, new_physical_path>>>>]
       ELSE [keep |-> TRUE, text |-> rewritten, upd |-> FALSE, move |-> <<>>]

\* the loop over imgs_split
RECURSIVE ImageLoop(_, _, _, _, _)
ImageLoop(a, imgs, guid, new_guid, fsys) ==
    IF imgs = <<>> THEN [result |-> <<>>, needs_update |-> FALSE, moves |-> <<>>]
    ELSE LET e == ImageEntry(a, Head(imgs), guid, new_guid, fsys)
             rest == ImageLoop(a, Tail(imgs), guid, new_guid, fsys)
         IN [result |-> (IF e.keep THEN <<e.text>> ELSE <<>>) \o rest.result,
             needs_update |-> e.upd \/ rest.needs_update,
             moves |-> e.move \o rest.moves]

\* `'|'.join(imgs_result) if len(imgs_result) > 0 else None`
ImagesUpdate(result) == IF Len(result) > 0 THEN Join(result, "|") ELSE NullStr

\* every entry of Images has its '*' (else img.split('*',1) does not unpack)
WellFormedImages(images) ==
    images = NullStr \/ \A k \in DOMAIN Split(images, "|") :
                            Len(SplitOnce(Split(images, "|")[k], "*")) = 2

\* the rows the scan visits: `where path like media_path%`
RECURSIVE Scanned(_, _)
Scanned(a, items) ==
    IF items = <<>> THEN <<>>
    ELSE (IF Like(Head(items).Path, a.media_path) THEN <<Head(items)>> ELSE <<>>)
         \o Scanned(a, Tail(items))

RECURSIVE ScanLoop(_, _, _)
ScanLoop(a, rows, fsys) ==
    IF rows = <<>> THEN [guid_updates |-> <<>>, image_updates |-> <<>>, moves |-> <<>>]
    ELSE LET row == Head(rows)
             new_guid == NewGuid(a, row)
             rest == ScanLoop(a, Tail(rows), fsys)
             img == IF a.move_images /\ row.Images # NullStr
                    THEN ImageLoop(a, Split(row.Images, "|"), row.guid, new_guid, fsys)
                    ELSE [result |-> <<>>, needs_update |-> FALSE, moves |-> <<>>]
         IN [guid_updates |->
                (IF Changed(row.guid, new_guid)
                 THEN <<ChangeRecord(row, new_guid)>> ELSE <<>>) \o rest.guid_updates,
             image_updates |->
                (IF img.needs_update
                 THEN <<[images |-> ImagesUpdate(img.result), guid |-> new_guid]>>
                 ELSE <<>>) \o rest.image_updates,
             moves |-> img.moves \o rest.moves]

(***************************************************************************)
(* The propagation statements of rehash(). executemany runs its statement  *)
(* once per change record, in the order of guid_updates.                   *)
(***************************************************************************)
\* update TypedBaseItems set guid=:new_raw where guid=:old_raw
SetGuid(items, r) ==
    [i \in DOMAIN items |->
        IF items[i].guid = r.old THEN [items[i] EXCEPT !.guid = r.new] ELSE items[i]]

\* the same, record by record, on a table whose primary key is guid: the first
\* statement that would leave two rows with one guid raises (sqlite3.IntegrityError)
\* and the statements after it never run
RECURSIVE GuidStatements(_, _)
GuidStatements(items, records) ==
    IF records = <<>> THEN [ok |-> TRUE, items |-> items]
    ELSE LET next == SetGuid(items, Head(records))
         IN IF UniqueGuids(next) THEN GuidStatements(next, Tail(records))
            ELSE [ok |-> FALSE, items |-> items]

\* update TypedBaseItems set parentid=:new_raw where parentid=:old_raw
KeepParentId(items, r) == items

SetParentId(items, r) ==
    [i \in DOMAIN items |->
        IF items[i].ParentId = r.old THEN [items[i] EXCEPT !.ParentId = r.new]
        ELSE items[i]]

KeyLimit == 37

\* update TypedBaseItems set PresentationUniqueKey=Replace(PresentationUniqueKey,
\*   :old_hex,:new_hex) where PresentationUniqueKey is not null
\*   and length(PresentationUniqueKey) < 37 and PresentationUniqueKey like :like_old_hex
ReplaceKey(key, r) ==
    IF key # NullStr /\ Len(key) < KeyLimit /\ Like(key, Hex(r.old))
    THEN Replace(key, Hex(r.old), Hex(r.new))
    ELSE key

SetPresentationUniqueKey(items, r) ==
    [i \in DOMAIN items |->
        [items[i] EXCEPT !.PresentationUniqueKey = ReplaceKey(@, r)]]

\* update AncestorIds set AncestorId=:new_raw, AncestorIdText=:new_hex where AncestorId=:old_raw
SetAncestorId(anc, r) ==
    {[row EXCEPT !.AncestorId = IF @ = r.old THEN r.new ELSE @] : row \in anc}

\* update AncestorIds set ItemId=:new_raw where ItemId=:old_raw
SetItemId(anc, r) ==
    {[row EXCEPT !.ItemId = IF @ = r.old THEN r.new ELSE @] : row \in anc}

\* update TypedBaseItems set Images=? where guid=?
SetImages(items, u) ==
    [i \in DOMAIN items |->
        IF items[i].guid = u.guid THEN [items[i] EXCEPT !.Images = u.images]
        ELSE items[i]]

\* the statement a query names, run for one record
Statement(query, table, r) ==
    CASE query = "parentid" -> SetParentId(table, r)
      [] query = "PresentationUniqueKey" -> SetPresentationUniqueKey(table, r)
      [] query = "AncestorId" -> SetAncestorId(table, r)
      [] query = "ItemId" -> SetItemId(table, r)
      [] query = "Images" -> SetImages(table, r)

\* executemany(c, query, args): the statement run for each record in turn
executemany(query, table, records) ==
    LET f[n \in 0..Len(records)] ==
            IF n = 0 THEN table ELSE Statement(query, f[n - 1], records[n])
    IN f[Len(records)]

(***************************************************************************)
(* migrate_image(RealMetadataPath, src, dst) on the set of existing paths. *)
(***************************************************************************)
\* raises: whether os.rename fails for a reason outside the program (OSError)
migrate_image(fsys, move, raises) ==
    LET src == move[1]
        dst == move[2]
    IN IF ~StartsWith(dst, RealMetadataPath) \/ ~StartsWith(src, RealMetadataPath)
       THEN fsys
       ELSE IF src \in fsys /\ ~raises THEN (fsys \ {src}) \cup {dst}   \* os.rename
       ELSE fsys                                                        \* OSError, logged

\* `for src, dst in move_image_dirs` from position k on; fails: the positions whose
\* rename raises
RECURSIVE MoveAll(_, _, _, _)
MoveAll(fsys, moves, k, fails) ==
    IF k > Len(moves) THEN fsys
    ELSE MoveAll(migrate_image(fsys, moves[k], k \in fails), moves, k + 1, fails)

(***************************************************************************)
(* The parent edges of a table and their transitive closure.               *)
(***************************************************************************)
Guids(items) == {items[i].guid : i \in DOMAIN items}

ParentOf(items, g) ==
    IF \E i \in DOMAIN items : items[i].guid = g
    THEN items[CHOOSE i \in DOMAIN items : items[i].guid = g].ParentId
    ELSE NULL

RECURSIVE AncestorsOf(_, _, _)
AncestorsOf(items, g, n) ==
    LET p == ParentOf(items, g)
    IN IF n = 0 \/ p = NULL THEN {}
       ELSE {p} \cup AncestorsOf(items, p, n - 1)

\* no Item is its own ancestor
Acyclic(items) ==
    \A i \in DOMAIN items :
        items[i].guid \notin AncestorsOf(items, items[i].guid, Len(items))

Closure(items) ==
    UNION {{[ItemId |-> items[i].guid, AncestorId |-> a] :
                a \in AncestorsOf(items, items[i].guid, Len(items))} :
           i \in DOMAIN items}

(***************************************************************************)
(* rehash(args), step by step.                                             *)
(***************************************************************************)
DbPrepare ==
    /\ pc = "connect"
    /\ db' = [db EXCEPT !.idx = TRUE]          \* CREATE INDEX runs outside a transaction
    /\ store' = [store EXCEPT !.idx = TRUE]
    /\ pc' = "migrate_paths"
    /\ UNCHANGED <<store0, fs, args, run, applied, first, rehashLocals, pruneLocals>>

MigratePaths ==
    /\ pc = "migrate_paths"
    /\ db' = [db EXCEPT !.items = MigrateAll(@, args.old_paths, args.media_path)]
    /\ store' = Persist(store, db')
    /\ pc' = "scan"
    /\ UNCHANGED <<store0, fs, args, run, applied, first, rehashLocals, pruneLocals>>

Scan ==
    /\ pc = "scan"
    /\ LET rows == Scanned(args, db.items)
           out == ScanLoop(args, rows, fs)
       IN IF args.move_images /\ \E k \in DOMAIN rows : ~WellFormedImages(rows[k].Images)
          THEN /\ pc' = "crashed"               \* ValueError: not enough values to unpack
               /\ UNCHANGED rehashLocals
          ELSE /\ guid_updates' = out.guid_updates
               /\ image_updates' = out.image_updates
               /\ move_image_dirs' = out.moves
               /\ pc' = "guid"
    /\ UNCHANGED <<store, db, store0, fs, args, run, applied, first, pruneLocals>>

UpdateGuid ==
    /\ pc = "guid"
    /\ LET res == GuidStatements(db.items, guid_updates)
       IN /\ db' = [db EXCEPT !.items = res.items]
          /\ pc' = IF res.ok THEN "parentid" ELSE "integrity"
    /\ store' = Persist(store, db')
    /\ UNCHANGED <<store0, fs, args, run, applied, first, rehashLocals, pruneLocals>>

UpdateParentId ==
    /\ pc = "parentid"
    /\ db' = [db EXCEPT !.items = executemany("parentid", @, guid_updates)]
    /\ store' = Persist(store, db')
    /\ pc' = "key"
    /\ UNCHANGED <<store0, fs, args, run, applied, first, rehashLocals, pruneLocals>>

UpdatePresentationUniqueKey ==
    /\ pc = "key"
    /\ db' = [db EXCEPT !.items = executemany("PresentationUniqueKey", @, guid_updates)]
    /\ store' = Persist(store, db')
    /\ pc' = "ancestorid"
    /\ UNCHANGED <<store0, fs, args, run, applied, first, rehashLocals, pruneLocals>>

UpdateAncestorId ==
    /\ pc = "ancestorid"
    /\ db' = [db EXCEPT !.anc = executemany("AncestorId", @, guid_updates)]
    /\ store' = Persist(store, db')
    /\ pc' = "itemid"
    /\ UNCHANGED <<store0, fs, args, run, applied, first, rehashLocals, pruneLocals>>

UpdateItemId ==
    /\ pc = "itemid"
    /\ db' = [db EXCEPT !.anc = executemany("ItemId", @, guid_updates)]
    /\ store' = Persist(store, db')
    /\ pc' = "images"
    /\ UNCHANGED <<store0, fs, args, run, applied, first, rehashLocals, pruneLocals>>

UpdateImages ==
    /\ pc = "images"
    /\ db' = IF args.move_images
             THEN [db EXCEPT !.items = executemany("Images", @, image_updates)]
             ELSE db
    /\ store' = Persist(store, db')
    /\ pc' = "move"
    /\ UNCHANGED <<store0, fs, args, run, applied, first, rehashLocals, pruneLocals>>

\* the loop over move_image_dirs; any of the renames may fail
MoveImages ==
    /\ pc = "move"
    /\ \E fails \in SUBSET DOMAIN move_image_dirs :
        fs' = IF args.move_images THEN MoveAll(fs, move_image_dirs, 1, fails) ELSE fs
    /\ pc' = "commit"
    /\ UNCHANGED <<store, db, store0, args, run, applied, first, rehashLocals, pruneLocals>>

\* the first run is killed in the loop over move_image_dirs, after any of the moves
\* and before conn.commit(): the open transaction is rolled back
Interrupted ==
    /\ pc = "move"
    /\ run = 1
    /\ \E performed \in SUBSET DOMAIN move_image_dirs :
        /\ fs' = MoveAll(fs, move_image_dirs, 1, DOMAIN move_image_dirs \ performed)
        /\ first' = [first EXCEPT !.end = "interrupted",
                                  !.performed = {move_image_dirs[k] : k \in performed}]
    /\ pc' = "interrupted"
    /\ UNCHANGED <<store, db, store0, args, run, applied, rehashLocals, pruneLocals>>

\* db_finalize(c); conn.commit()
Commit ==
    /\ pc = "commit"
    /\ db' = [db EXCEPT !.idx = FALSE]
    /\ store' = db'
    /\ pc' = "done"
    /\ UNCHANGED <<store0, fs, args, run, applied, first, rehashLocals, pruneLocals>>

PropagationSteps == {"guid", "parentid", "key", "ancestorid", "itemid", "images"}

\* a statement of a propagation step raises (sqlite3.Error): nothing catches it, the
\* run ends without commit() and the open transaction is rolled back. db keeps the
\* content the connection had reached, which no one reads any more. pc is "failed"
\* here and "integrity" when the guid statement itself hit the primary key.
StepFails ==
    /\ pc \in PropagationSteps
    /\ pc' = "failed"
    /\ UNCHANGED <<store, db, store0, fs, args, run, applied, first, rehashLocals, pruneLocals>>

\* the same command line again, on the store the first run left
Rerun ==
    /\ pc \in {"done", "interrupted"}
    /\ run = 1
    /\ run' = 2
    /\ pc' = "connect"
    /\ store0' = store
    /\ applied' = IF pc = "done" THEN guid_updates ELSE <<>>
    /\ first' = [first EXCEPT !.end = pc, !.moves = move_image_dirs,
                              !.images = image_updates]
    /\ db' = store
    /\ guid_updates' = <<>>
    /\ image_updates' = <<>>
    /\ move_image_dirs' = <<>>
    /\ UNCHANGED <<store, fs, args, pruneLocals>>

Next ==
    \/ DbPrepare
    \/ MigratePaths
    \/ Scan
    \/ UpdateGuid
    \/ UpdateParentId
    \/ UpdatePresentationUniqueKey
    \/ UpdateAncestorId
    \/ UpdateItemId
    \/ UpdateImages
    \/ MoveImages
    \/ Interrupted
    \/ Commit
    \/ StepFails
    \/ Rerun

(***************************************************************************)
(* Initial stores of a migration: MaxItems folders whose paths lie below   *)
(* the media path or the old path, with guids that are digests of such     *)
(* paths (current or stale), any parent edges, and the closure rows of     *)
(* those edges.                                                            *)
(***************************************************************************)
PathPool == { <<"/","m","/","a">>, <<"/","m","/","A">>, <<"/","o","/","a">> }

IdPool == {hash(ProgramData, p, Folder, TRUE) : p \in PathPool}

ArgsPool ==
    [media_path : {MediaPath}, programdata : {ProgramData},
     old_paths : {<<>>, <<OldPath>>}, case_sensitive : BOOLEAN, move_images : {TRUE}]

PlainRows(n) ==
    {items \in [1..n -> [guid : IdPool, type : {Folder}, ParentId : IdPool \cup {NULL},
                         Path : PathPool, Images : {NullStr},
                         PresentationUniqueKey : {NullStr}]] :
        UniqueGuids(items) /\ Acyclic(items)}

StoreOf(items) == [items |-> items, anc |-> Closure(items), idx |-> FALSE]

\* what is remembered of the first run: the files it found, how it ended ("none" while
\* it runs), the moves and Images updates it had scheduled, the moves it performed
\* when it was interrupted
FirstRun(fsys) ==
    [files |-> fsys, end |-> "none", moves |-> <<>>, images |-> <<>>, performed |-> {}]

InitRun(st, a, fsys) ==
    /\ store = st
    /\ db = st
    /\ store0 = st
    /\ fs = fsys
    /\ args = a
    /\ pc = "connect"
    /\ run = 1
    /\ guid_updates = <<>>
    /\ image_updates = <<>>
    /\ move_image_dirs = <<>>
    /\ unresolved_parents = <<>>
    /\ delete_parent_guids = <<>>
    /\ changed_types = <<>>
    /\ iteration = 0
    /\ referenced_paths = <<>>
    /\ applied = <<>>
    /\ first = FirstRun(fsys)

Init ==
    \E items \in PlainRows(MaxItems), a \in ArgsPool :
        InitRun(StoreOf(items), a, {})

Spec == Init /\ [][Next]_vars

(***************************************************************************)
(* Initial stores for the composite key column: the rows of a migration,   *)
(* the first of which holds a PresentationUniqueKey of one of the shapes   *)
(* null, hex, hex with a suffix, external id followed by a hex.            *)
(***************************************************************************)
ExternalPrefix == <<"1","2","3","4","5","6","-","e","n","-">>
SeasonSuffix == <<"-","0","0","1">>
LongSuffix == <<"-","1","0","0","0">>

KeyPool ==
    {NullStr}
    \cup {Hex(g) \o sfx : g \in IdPool, sfx \in {<<>>, SeasonSuffix, LongSuffix}}
    \cup {ExternalPrefix \o Hex(g) : g \in IdPool}

KeyRows(n) ==
    {[i \in 1..n |-> IF i = 1 THEN [items[i] EXCEPT !.PresentationUniqueKey = key,
                                                    !.ParentId = NULL]
                     ELSE [items[i] EXCEPT !.ParentId = NULL]] :
        items \in PlainRows(n), key \in KeyPool}

KeyArgs ==
    [media_path : {MediaPath}, programdata : {ProgramData},
     old_paths : {<<>>}, case_sensitive : {TRUE}, move_images : {TRUE}]

InitKey ==
    \E items \in KeyRows(MaxItems), a \in KeyArgs :
        InitRun(StoreOf(items), a, {})

SpecKey == InitKey /\ [][Next]_vars

(***************************************************************************)
(* Initial stores for the Images column: one Item below the media path     *)
(* whose guid is current or stale, with up to MaxImages entries, and any   *)
(* set of the files those entries can name, before or after the move.      *)
(***************************************************************************)
ImagePath == <<"/", "m", "/", "a">>
CurrentGuid == hash(ProgramData, ImagePath, Folder, TRUE)
StaleGuid == hash(ProgramData, <<"/", "o", "/", "a">>, Folder, TRUE)
OtherGuid == hash(ProgramData, <<"/", "m", "/", "A">>, Folder, TRUE)

\* entries of an Item with guid g: two metadata images (placeholder form and program
\* data form), an image in the media folder, a metadata image of another Item
EntryPool(g) ==
    { MetadataToken \o Subpath(g) \o <<"/", "p", "*", "1">>,
      ProgramData \o MetadataDir \o Subpath(g) \o <<"/", "b", "*", "2", "*", "0">>,
      MediaPath \o <<"/", "a", "/", "f", "*", "3">>,
      MetadataToken \o Subpath(OtherGuid) \o <<"/", "p", "*", "4">> }

\* the physical paths the metadata entries of the Item name, before and after
FilePool ==
    {RealMetadataPath \o Subpath(g) \o <<"/", f>> :
        g \in {CurrentGuid, StaleGuid}, f \in {"p", "b"}}

ImageLists(g) ==
    UNION {[1..n -> EntryPool(g)] : n \in 1..MaxImages}

ImageRows ==
    {<<Row(g, Folder, NULL, ImagePath, imgs, NullStr)>> :
        g \in {CurrentGuid, StaleGuid},
        imgs \in {NullStr} \cup {Join(l, "|") : l \in UNION {ImageLists(h) : h \in {CurrentGuid, StaleGuid}}}}

ImageArgs ==
    [media_path : {MediaPath}, programdata : {ProgramData},
     old_paths : {<<>>}, case_sensitive : {TRUE}, move_images : BOOLEAN]

InitImages ==
    \E items \in ImageRows, a \in ImageArgs, fsys \in SUBSET FilePool :
        InitRun(StoreOf(items), a, fsys)

SpecImages == InitImages /\ [][Next]_vars

(***************************************************************************)
(* prune-metadata.py: prune_metadata(args) with args.type = 'audio'.       *)
(***************************************************************************)
Audio == <<"A">>             \* MediaBrowser.Controller.Entities.Audio.Audio
MusicAlbum == <<"L">>        \* MediaBrowser.Controller.Entities.Audio.MusicAlbum
MusicArtist == <<"T">>       \* MediaBrowser.Controller.Entities.Audio.MusicArtist
MusicGenre == <<"G">>        \* MediaBrowser.Controller.Entities.Audio.MusicGenre
AggregateFolder == <<"R">>   \* MediaBrowser.Controller.Entities.AggregateFolder

prune_types == <<Audio, MusicAlbum, MusicArtist, MusicGenre>>
PruneTypeSet == {prune_types[k] : k \in DOMAIN prune_types}

TypeNames == PruneTypeSet \cup {Folder, AggregateFolder}

\* changed_types[t] += 1 (the model's counts stop at MaxCount)
Count(counts, t) ==
    [counts EXCEPT ![t] = IF @ < MaxCount THEN @ + 1 ELSE @]

InList(x, list) == \E k \in DOMAIN list : list[k] = x
ListSet(list) == {list[k] : k \in DOMAIN list}

\* list(set(...)): the distinct guids. The order Python gives them in is fixed by
\* their hashes; the model lists them in ascending order (the loop over them records
\* the same guids and counts in any order).
RECURSIVE Ascending(_)
Ascending(S) ==
    IF S = {} THEN <<>>
    ELSE LET m == CHOOSE x \in S : \A y \in S : x <= y
         IN <<m>> \o Ascending(S \ {m})

\* `[img.split('*',1)[0] for img in images.split('|')]`
ImagePaths(images) ==
    [k \in DOMAIN Split(images, "|") |-> SplitOnce(Split(images, "|")[k], "*")[1]]

\* what a row adds to referenced_paths: its path unless it lies below the media path,
\* and the paths of its images
Referenced(row) ==
    (IF ~StartsWith(row.Path, args.media_path) THEN <<row.Path>> ELSE <<>>)
    \o (IF row.Images # NullStr THEN ImagePaths(row.Images) ELSE <<>>)

\* select ParentId,path,Images from TypedBaseItems where type=?  and the loop body:
\* the rows of one prune type, in rowid order
RECURSIVE SelectType(_, _, _)
SelectType(items, prune_type, acc) ==
    IF items = <<>> THEN acc
    ELSE LET row == Head(items)
             next == IF row.type # prune_type THEN acc
                     ELSE [counts |-> Count(acc.counts, prune_type),
                           paths |-> acc.paths \o Referenced(row),
                           parents |-> IF row.ParentId = NULL THEN acc.parents
                                       ELSE Append(acc.parents, row.ParentId)]
         IN SelectType(Tail(items), prune_type, next)

\* `for prune_type in prune_types`
RECURSIVE SelectTypes(_, _, _)
SelectTypes(items, types, acc) ==
    IF types = <<>> THEN acc
    ELSE SelectTypes(items, Tail(types), SelectType(items, Head(types), acc))

\* `if mediatype == '...AggregateFolder': continue`
NeverRoot(mediatype) == FALSE

IsRoot(mediatype) == mediatype = AggregateFolder

\* `new_unresolved_parents += [UUID(bytes_le=parent_guid_bytes)]`: what is enqueued
\* for a row that was recorded
Enqueue(new_unresolved_parents, parent) == Append(new_unresolved_parents, parent)

\* the body of `for guid in unresolved_parents` for the frontier from position k on;
\* acc is [del, counts, new, paths, crashed]. UUID(bytes_le=None) raises TypeError.
RECURSIVE ResolveLoop(_, _, _, _)
ResolveLoop(items, frontier, k, acc) ==
    IF k > Len(frontier) \/ acc.crashed THEN acc
    ELSE LET guid == frontier[k]
             found == \E i \in DOMAIN items : items[i].guid = guid
             row == items[CHOOSE i \in DOMAIN items : items[i].guid = guid]
             next ==
                IF ~found THEN acc
                ELSE IF IsRoot(row.type) THEN acc
                ELSE [del |-> IF InList(guid, acc.del) THEN acc.del
                              ELSE Append(acc.del, guid),
                      counts |-> Count(acc.counts, row.type),
                      paths |-> acc.paths \o Referenced(row),
                      new |-> IF row.ParentId = NULL THEN acc.new
                              ELSE Enqueue(acc.new, row.ParentId),
                      crashed |-> row.ParentId = NULL]
         IN ResolveLoop(items, frontier, k + 1, next)

\* delete from TypedBaseItems where type=? / where guid=?
RECURSIVE DeleteWhere(_, _, _)
DeleteWhere(items, types, guids) ==
    IF items = <<>> THEN <<>>
    ELSE (IF Head(items).type \in types \/ Head(items).guid \in guids
          THEN <<>> ELSE <<Head(items)>>)
         \o DeleteWhere(Tail(items), types, guids)

SelectTargets ==
    /\ pc = "select"
    /\ LET out == SelectTypes(db.items, prune_types,
                              [counts |-> changed_types, paths |-> referenced_paths,
                               parents |-> <<>>])
       IN /\ changed_types' = out.counts
          /\ referenced_paths' = out.paths
          /\ unresolved_parents' = out.parents
    /\ pc' = "resolve"
    /\ UNCHANGED <<store, db, store0, fs, args, run, applied, first, rehashLocals,
                   delete_parent_guids, iteration>>

\* one pass of `while len(unresolved_parents)`; the pass number is kept modulo
\* MaxCount
ResolveIteration ==
    /\ pc = "resolve"
    /\ Len(unresolved_parents) > 0
    /\ iteration' = (iteration % MaxCount) + 1
    /\ LET out == ResolveLoop(db.items, unresolved_parents, 1,
                              [del |-> delete_parent_guids, counts |-> changed_types,
                               new |-> <<>>, paths |-> referenced_paths,
                               crashed |-> FALSE])
       IN /\ delete_parent_guids' = out.del
          /\ referenced_paths' = out.paths
          /\ changed_types' = out.counts
          /\ IF out.crashed
             THEN /\ pc' = "crashed"
                  /\ UNCHANGED unresolved_parents
             ELSE /\ pc' = "resolve"
                  /\ unresolved_parents' = Ascending(ListSet(out.new))
    /\ UNCHANGED <<store, db, store0, fs, args, run, applied, first, rehashLocals>>

\* the two delete statements after the loop
DeleteItems ==
    /\ pc = "resolve"
    /\ Len(unresolved_parents) = 0
    /\ db' = [db EXCEPT !.items = DeleteWhere(DeleteWhere(@, PruneTypeSet, {}),
                                              {}, ListSet(delete_parent_guids))]
    /\ store' = Persist(store, db')
    /\ pc' = "commit"
    /\ UNCHANGED <<store0, fs, args, run, applied, first, rehashLocals, pruneLocals>>

\* the prefixes the removal of metadata folders knows; '/config/metadata/' is spelled
\* out in the code, the model spells it with its program data path
MetadataSlash == MetadataToken \o <<"/">>
ConfigMetadata == ProgramData \o MetadataDir \o <<"/">>
RootMetadata == <<"r","o","o","t","/","m","e","t","a","d","a","t","a","/">>

\* real_path before its first assignment
Unbound == <<"unbound">>

\* `for path in referenced_paths` from position k on; acc is [fs, real_path, crashed].
\* A path of no known prefix leaves real_path as the pass before left it; reading it
\* unassigned raises UnboundLocalError, which `except OSError` does not catch.
RECURSIVE FolderCleanup(_, _, _)
FolderCleanup(paths, k, acc) ==
    IF k > Len(paths) \/ acc.crashed THEN acc
    ELSE LET path == paths[k]
             meta == StartsWith(path, MetadataSlash)
             config == StartsWith(path, ConfigMetadata)
             real_path ==
                IF meta THEN RealMetadataPath \o <<"/">>
                             \o SubSeq(path, Len(MetadataSlash) + 1, Len(path))
                ELSE IF config THEN RealMetadataPath \o <<"/">>
                                    \o SubSeq(path, Len(ConfigMetadata) + 1, Len(path))
                ELSE acc.real_path
             next ==
                IF ~meta /\ ~config /\ StartsWith(path, RootMetadata) THEN acc
                ELSE IF real_path = Unbound THEN [acc EXCEPT !.crashed = TRUE]
                ELSE [fs |-> acc.fs \ {real_path},       \* unlink, or a warning
                      real_path |-> real_path, crashed |-> FALSE]
         IN FolderCleanup(paths, k + 1, next)

\* `if args.delete_metadata_folders:` and its loop, then conn.commit(). pc is
\* "unbound" when the loop raised: the run ends before the commit.
PruneCommit ==
    /\ pc = "commit"
    /\ LET out == IF args.delete_metadata_folders
                  THEN FolderCleanup(referenced_paths, 1,
                                     [fs |-> fs, real_path |-> Unbound, crashed |-> FALSE])
                  ELSE [fs |-> fs, real_path |-> Unbound, crashed |-> FALSE]
       IN /\ fs' = out.fs
          /\ IF out.crashed
             THEN /\ pc' = "unbound"
                  /\ UNCHANGED store
             ELSE /\ pc' = "done"
                  /\ store' = db
    /\ UNCHANGED <<db, store0, args, run, applied, first, rehashLocals, pruneLocals>>

NextPrune ==
    \/ SelectTargets
    \/ ResolveIteration
    \/ DeleteItems
    \/ PruneCommit

(***************************************************************************)
(* Initial stores of a pruning run: MaxPruneItems rows with guids 1, 2, .. *)
(* listed roots first, then folders, then audio; every parent column is    *)
(* NULL or the guid of a row (cycles included).                            *)
(***************************************************************************)
PrunePath == <<"/", "m", "/", "a">>

TypeRank(t) == IF t = AggregateFolder THEN 1 ELSE IF t = Folder THEN 2 ELSE 3

PruneRows(n) ==
    {[i \in 1..n |-> Row(i, ty[i], par[i], PrunePath, NullStr, NullStr)] :
        ty \in {t \in [1..n -> {AggregateFolder, Folder, Audio}] :
                    \A i \in 1..(n - 1) : TypeRank(t[i]) <= TypeRank(t[i + 1])},
        par \in [1..n -> (1..n) \cup {NULL}]}

PruneArgs ==
    [media_path |-> MediaPath, programdata |-> ProgramData, old_paths |-> <<>>,
     case_sensitive |-> TRUE, move_images |-> FALSE, delete_metadata_folders |-> FALSE]

InitPruneOf(items) ==
        /\ store = StoreOf(items)
        /\ db = StoreOf(items)
        /\ store0 = StoreOf(items)
        /\ fs = {}
        /\ args = PruneArgs
        /\ pc = "select"
        /\ run = 1
        /\ guid_updates = <<>>
        /\ image_updates = <<>>
        /\ move_image_dirs = <<>>
        /\ unresolved_parents = <<>>
        /\ delete_parent_guids = <<>>
        /\ changed_types = [t \in TypeNames |-> 0]
        /\ iteration = 0
        /\ referenced_paths = <<>>
        /\ applied = <<>>
        /\ first = FirstRun({})

InitPrune == \E items \in PruneRows(MaxPruneItems) : InitPruneOf(items)

SpecPrune == InitPrune /\ [][NextPrune]_vars

\* For liveness: the run is one sequential process, which takes its next step
\* whenever it has one; the stores have one row fewer.
InitPruneSmall == \E items \in PruneRows(MaxPruneItems - 1) : InitPruneOf(items)

FairSpecPrune == InitPruneSmall /\ [][NextPrune]_vars /\ WF_vars(NextPrune)

(***************************************************************************)
(* Initial stores of a pruning run that removes metadata folders: a root,  *)
(* a folder below it and two audio Items in the folder, with paths of      *)
(* every prefix form, Images on the first audio Item, and any of the files *)
(* those paths name.                                                       *)
(***************************************************************************)
ItemPathPool ==
    { MediaPath \o <<"/", "a">>,
      MetadataSlash \o <<"x">>,
      ConfigMetadata \o <<"y">>,
      RootMetadata \o <<"z">>,
      <<"/", "u">> }

PruneImagePool ==
    { NullStr,
      MetadataSlash \o <<"i", "*", "1">>,
      MediaPath \o <<"/", "a", "/", "f", "*", "2">>,
      MetadataSlash \o <<"i", "*", "1", "|">> \o MediaPath \o <<"/", "a", "/", "f", "*", "2">> }

PruneFilePool == {RealMetadataPath \o <<"/", f>> : f \in {"x", "y", "i"}}

FolderRows ==
    {<<Row(1, AggregateFolder, NULL, MediaPath, NullStr, NullStr),
       Row(2, Folder, 1, p2, NullStr, NullStr),
       Row(3, Audio, 2, p3, imgs, NullStr),
       Row(4, Audio, 2, p4, NullStr, NullStr)>> :
        p2 \in ItemPathPool, p3 \in ItemPathPool, p4 \in ItemPathPool,
        imgs \in PruneImagePool}

InitFolders ==
    \E items \in FolderRows, fsys \in SUBSET PruneFilePool :
        /\ store = StoreOf(items)
        /\ db = StoreOf(items)
        /\ store0 = StoreOf(items)
        /\ fs = fsys
        /\ args = [PruneArgs EXCEPT !.delete_metadata_folders = TRUE]
        /\ pc = "select"
        /\ run = 1
        /\ guid_updates = <<>>
        /\ image_updates = <<>>
        /\ move_image_dirs = <<>>
        /\ unresolved_parents = <<>>
        /\ delete_parent_guids = <<>>
        /\ changed_types = [t \in TypeNames |-> 0]
        /\ iteration = 0
        /\ referenced_paths = <<>>
        /\ applied = <<>>
        /\ first = FirstRun(fsys)

SpecFolders == InitFolders /\ [][NextPrune]_vars

(***************************************************************************)
(* Properties of the migration.                                            *)
(***************************************************************************)
Records == {guid_updates[k] : k \in DOMAIN guid_updates}
OldIds == {r.old : r \in Records}
NewIds == {r.new : r \in Records}

\* the guids that the committed store refers to: parent column, closure rows
ParentRefs(st) == {st.items[i].ParentId : i \in DOMAIN st.items}
ClosureRefs(st) == {row.ItemId : row \in st.anc} \cup {row.AncestorId : row \in st.anc}

SameRows(a, b) == a.items = b.items /\ a.anc = b.anc

\* C1 as stated: after a committed migration the parent column and the closure rows
\* hold the oldId of no ChangeRecord.
C1_NoOldIdLeft ==
    pc = "done" => (ParentRefs(store) \cup ClosureRefs(store)) \cap OldIds = {}

\* C1 as amended: after a committed migration the parent column and the closure rows
\* hold no oldId of a ChangeRecord, except an id that is also the newId of a
\* ChangeRecord (the id a migrated Item now carries).
C1_NoStaleOldId ==
    pc = "done" =>
        (ParentRefs(store) \cup ClosureRefs(store)) \cap (OldIds \ NewIds) = {}

\* a committed first run whose change set renamed an id that a parent column and
\* both sides of the closure rows referred to
C1_Witness ==
    /\ pc = "done"
    /\ run = 1
    /\ \E r \in Records :
        /\ r.old \in ParentRefs(store0)
        /\ \E row \in store0.anc : row.ItemId = r.old
        /\ \E row \in store0.anc : row.AncestorId = r.old
        /\ r.new \in ParentRefs(store)

\* the id the change set gives row i of the store the run started from
ExpectedGuid(i) ==
    LET g == store0.items[i].guid
    IN IF \E r \in Records : r.old = g
       THEN (CHOOSE r \in Records : r.old = g).new
       ELSE g

ExpectedDistinct ==
    \A i, j \in DOMAIN store0.items : ExpectedGuid(i) = ExpectedGuid(j) => i = j

\* C2: once the guid statements have run for a change set whose new ids are pairwise
\* distinct, every Item with a ChangeRecord carries the newId of its own record, every
\* other Item its old id, and no two Items the same id; this for every such change
\* set, also one where a newId is another record's oldId.
C2_SetBasedMapping ==
    (pc \in {"done", "integrity"} /\ run = 1 /\ ExpectedDistinct) =>
        /\ \A i \in DOMAIN store.items : store.items[i].guid = ExpectedGuid(i)
        /\ UniqueGuids(store.items)

\* C3: when a propagation step has failed, the committed rows are those the run
\* started from, whatever the connection had already updated.
C3_FailureLeavesStore ==
    pc \in {"failed", "integrity"} => SameRows(store, store0)

\* a run that failed after the path rewrite and the guid statements had changed rows
\* through the connection
C3_Witness ==
    /\ pc = "failed"
    /\ \E i \in DOMAIN db.items :
        /\ db.items[i].Path # store0.items[i].Path
        /\ db.items[i].guid # store0.items[i].guid
    /\ \E i \in DOMAIN db.items : db.items[i].ParentId # store0.items[i].ParentId
    /\ db.anc # store0.anc

KeyOf(st, i) == st.items[i].PresentationUniqueKey

\* the suffix a key carries after a hex identifier
KeySuffix(key) == SubSeq(key, HexLen + 1, Len(key))

\* C9: after a committed migration, for every ChangeRecord, a composite key that was
\* the record's old hex identifier, alone or followed by a suffix, is the record's new
\* hex identifier followed by the same suffix; a null key is still null, and a key that
\* embeds the old hex after an external-id prefix is unchanged.
C9_KeyReplaced ==
    (pc = "done" /\ run = 1) =>
        \A i \in DOMAIN store0.items :
            /\ \A r \in Records :
                /\ StartsWith(KeyOf(store0, i), Hex(r.old)) =>
                        KeyOf(store, i) = Hex(r.new) \o KeySuffix(KeyOf(store0, i))
                /\ KeyOf(store0, i) = ExternalPrefix \o Hex(r.old) =>
                        KeyOf(store, i) = KeyOf(store0, i)
            /\ KeyOf(store0, i) = NullStr => KeyOf(store, i) = NullStr

\* the entries of an Images value (none for null)
EntriesOf(images) == IF images = NullStr THEN <<>> ELSE Split(images, "|")

\* the path and the attribute suffix of an entry: before and after its first '*'
PathOf(entry) == SubSeq(entry, 1, NextOccurrence(entry, <<"*">>, 1) - 1)
AttrsOf(entry) == SubSeq(entry, NextOccurrence(entry, <<"*">>, 1) + 1, Len(entry))

\* entry e of the new string is entry o of the old one, at most its path rewritten
\* from the directory of guid g to that of guid n
SameEntry(e, o, g, n) ==
    /\ NextOccurrence(e, <<"*">>, 1) # 0
    /\ AttrsOf(e) = AttrsOf(o)
    /\ PathOf(e) \in {PathOf(o), Replace(PathOf(o), Subpath(g), Subpath(n))}

\* the entries of new are entries of old, in the order they have in old
RECURSIVE Embeds(_, _, _, _)
Embeds(new, old, g, n) ==
    IF new = <<>> THEN TRUE
    ELSE IF old = <<>> THEN FALSE
    ELSE \/ SameEntry(Head(new), Head(old), g, n) /\ Embeds(Tail(new), Tail(old), g, n)
         \/ Embeds(new, Tail(old), g, n)

\* what the entry loop makes of the Images value of row i, as the scan sees it
LoopOf(i) ==
    ImageLoop(args, EntriesOf(db.items[i].Images), db.items[i].guid,
              NewGuid(args, db.items[i]), fs)

\* C10: the Images value a committed migration leaves on an Item holds entries of the
\* value it found, in their original relative order, each with its attribute suffix
\* and at most its path changed; and when the entry loop keeps every entry and
\* rewrites no path, joining its result gives the string that was split.
C10_ImagesPreserved ==
    /\ (pc = "done" /\ run = 1) =>
        \A i \in DOMAIN store0.items :
            Embeds(EntriesOf(store.items[i].Images), EntriesOf(store0.items[i].Images),
                   store0.items[i].guid, store.items[i].guid)
    /\ (pc = "guid" /\ run = 1 /\ args.move_images) =>
        \A i \in DOMAIN db.items :
            (/\ db.items[i].Images # NullStr
             /\ Len(LoopOf(i).result) = Len(EntriesOf(db.items[i].Images))
             /\ \A k \in DOMAIN LoopOf(i).result :
                    PathOf(LoopOf(i).result[k]) = PathOf(EntriesOf(db.items[i].Images)[k]))
            => ImagesUpdate(LoopOf(i).result) = db.items[i].Images

\* a committed first run that rewrote an Images value of two entries, moving the first
\* to the directory of the new guid and keeping the second as it was
C10_Witness ==
    /\ pc = "done"
    /\ run = 1
    /\ store.items[1].Images # store0.items[1].Images
    /\ Len(EntriesOf(store.items[1].Images)) = 2
    /\ Len(EntriesOf(store0.items[1].Images)) = 2
    /\ EntriesOf(store.items[1].Images)[1] # EntriesOf(store0.items[1].Images)[1]
    /\ EntriesOf(store.items[1].Images)[2] = EntriesOf(store0.items[1].Images)[2]

\* the physical path of an image path below the metadata directory
PhysicalOf(img_path) ==
    IF StartsWith(img_path, MetadataToken)
    THEN Replace(img_path, MetadataToken, RealMetadataPath)
    ELSE Replace(img_path, args.programdata \o MetadataDir, RealMetadataPath)

\* entry is a metadata-managed entry of an Item whose guid goes from g to n, and its
\* file is in files neither at its old nor at its new physical path
MissingEntry(entry, g, n, files) ==
    /\ \/ StartsWith(PathOf(entry), MetadataToken)
       \/ StartsWith(PathOf(entry), args.programdata \o MetadataDir)
    /\ g = n \/ Contains(PathOf(entry), Hex(g))
    /\ PhysicalOf(PathOf(entry)) \notin files
    /\ Replace(PhysicalOf(PathOf(entry)), Subpath(g), Subpath(n)) \notin files

\* C14: after a committed run with asset relocation, the stored Images value of an
\* Item holds no metadata-managed entry whose file the run found at neither its old nor
\* its new physical path, under its old path or under its new one, whatever the other
\* entries of the Item are.
C14_MissingEntryAbsent ==
    (pc = "done" /\ run = 1 /\ args.move_images) =>
        \A i \in DOMAIN store0.items :
            \A k \in DOMAIN EntriesOf(store0.items[i].Images) :
                LET entry == EntriesOf(store0.items[i].Images)[k]
                    g == store0.items[i].guid
                    n == store.items[i].guid
                IN MissingEntry(entry, g, n, first.files) =>
                    \A j \in DOMAIN EntriesOf(store.items[i].Images) :
                        PathOf(EntriesOf(store.items[i].Images)[j]) \notin
                            {PathOf(entry), Replace(PathOf(entry), Subpath(g), Subpath(n))}

\* every move the current run scheduled has left no file at its source
AllMoved == \A k \in DOMAIN move_image_dirs : move_image_dirs[k][1] \notin fs

\* C11: when the first run was interrupted among its moves and left the store as it
\* was, a second run with the same arguments that carries out all its moves ends with
\* every scanned Item carrying its recomputed guid, the file of every move the first
\* run had scheduled at its destination and no longer at its source, every Item the
\* first run had an Images update for holding exactly that Images value, and without
\* having scheduled a move that the first run had already performed.
C11_RerunAfterInterrupt ==
    (run = 2 /\ pc = "done" /\ first.end = "interrupted" /\ AllMoved) =>
        /\ \A i \in DOMAIN store.items :
            Like(store.items[i].Path, args.media_path) =>
                store.items[i].guid = NewGuid(args, store.items[i])
        /\ \A k \in DOMAIN first.moves :
            first.moves[k][2] \in fs /\ first.moves[k][1] \notin fs
        /\ \A k \in DOMAIN first.images :
            \E i \in DOMAIN store.items :
                /\ store.items[i].guid = first.images[k].guid
                /\ store.items[i].Images = first.images[k].images
        /\ \A k \in DOMAIN move_image_dirs : move_image_dirs[k] \notin first.performed

\* a completed second run after a first run that scheduled two moves and was
\* interrupted when it had performed one of them
C11_Witness ==
    /\ run = 2
    /\ pc = "done"
    /\ first.end = "interrupted"
    /\ Len(first.moves) = 2
    /\ Cardinality(first.performed) = 1
    /\ first.moves[1] # first.moves[2]
    /\ Len(move_image_dirs) = 1
    /\ AllMoved
    /\ store.items[1].guid # store0.items[1].guid

\* entry is a metadata image of the Item with guid n
ManagedBy(entry, n) ==
    /\ \/ StartsWith(PathOf(entry), MetadataToken)
       \/ StartsWith(PathOf(entry), args.programdata \o MetadataDir)
    /\ Contains(PathOf(entry), Subpath(n))

\* C15: after a committed run with asset relocation, every entry of an Images value the
\* run wrote that names a metadata image of its Item names a physical path at which
\* the file exists, also when a move failed and was skipped.
C15_WrittenReferencesExist ==
    (pc = "done" /\ args.move_images) =>
        \A k \in DOMAIN image_updates :
            \A i \in DOMAIN store.items :
                store.items[i].guid = image_updates[k].guid =>
                    \A j \in DOMAIN EntriesOf(store.items[i].Images) :
                        ManagedBy(EntriesOf(store.items[i].Images)[j], store.items[i].guid)
                        => PhysicalOf(PathOf(EntriesOf(store.items[i].Images)[j])) \in fs

(***************************************************************************)
(* Properties of pruning.                                                  *)
(***************************************************************************)
\* C12: a pruning run that removes metadata folders is never stopped by a collected
\* path of no recognized prefix form, wherever the path stands in the list: the loop
\* over the collected paths never raises, so the run reaches its commit.
C12_UnknownPathGoesOn == pc # "unbound"

\* the number of rows of type t that the run deleted: in the store it started from
\* and not in the store it committed
Deleted(t) ==
    Cardinality({i \in DOMAIN store0.items :
                    /\ store0.items[i].type = t
                    /\ store0.items[i].guid \notin Guids(store.items)})

\* C13: at the end of a pruning run the count reported for each type is the number of
\* Items of that type the run deleted, also when targeted Items share a parent.
C13_CountsAreDeletions ==
    pc = "done" => \A t \in TypeNames : changed_types[t] = Deleted(t)

\* C16: parent-chain resolution never ends in an error: a non-root ancestor without
\* parentId is recorded and nothing is enqueued for it, and the run goes on to the
\* deletions and the commit.
C16_NullParentAncestor == pc # "crashed"

TypeOf(items, g) == items[CHOOSE i \in DOMAIN items : items[i].guid = g].type

\* a parent tree ending in library roots: no cycle, the roots have no parent, every
\* other Item has a parent that exists
WellFormedTree(items) ==
    /\ Acyclic(items)
    /\ \A i \in DOMAIN items :
        IF items[i].type = AggregateFolder THEN items[i].ParentId = NULL
        ELSE items[i].ParentId \in Guids(items)

Targeted(items) == {items[i].guid : i \in {k \in DOMAIN items : items[k].type \in PruneTypeSet}}

\* the proper ancestors of the targeted Items that are not roots
NonRootAncestors(items) ==
    {a \in UNION {AncestorsOf(items, g, Len(items)) : g \in Targeted(items)} :
        TypeOf(items, a) # AggregateFolder}

ResolutionOver == (pc = "resolve" /\ unresolved_parents = <<>>) \/ pc \in {"commit", "done"}

\* C5: on a parent tree ending in library roots the resolution does not stop on a
\* root's missing parent, records no root and no guid twice, and ends with exactly
\* the non-root proper ancestors of the targeted Items.
C5_ExactAncestors ==
    WellFormedTree(store0.items) =>
        /\ pc # "crashed"
        /\ \A j, k \in DOMAIN delete_parent_guids :
                delete_parent_guids[j] = delete_parent_guids[k] => j = k
        /\ \A k \in DOMAIN delete_parent_guids :
                TypeOf(store0.items, delete_parent_guids[k]) # AggregateFolder
        /\ ResolutionOver =>
                ListSet(delete_parent_guids) = NonRootAncestors(store0.items)

\* a finished resolution on a tree in which two targeted Items share a folder that
\* lies below a root
C5_Witness ==
    /\ pc = "commit"
    /\ WellFormedTree(store0.items)
    /\ \E i, j \in DOMAIN store0.items :
        /\ i # j
        /\ store0.items[i].type = Audio
        /\ store0.items[j].type = Audio
        /\ store0.items[i].ParentId = store0.items[j].ParentId
        /\ TypeOf(store0.items, store0.items[i].ParentId) = Folder
        /\ InList(store0.items[i].ParentId, delete_parent_guids)
        /\ TypeOf(store0.items, ParentOf(store0.items, store0.items[i].ParentId))
                = AggregateFolder

\* C6: the resolution loop comes to an end for every parent graph.
C6_ResolutionEnds == <>(pc \in {"commit", "done", "crashed"})

\* C7: after a committed pruning of a well-formed tree, every remaining Item whose
\* parent existed before the run has a parent that still exists.
C7_NoDanglingParent ==
    (pc = "done" /\ WellFormedTree(store0.items)) =>
        \A i \in DOMAIN store.items :
            store.items[i].ParentId \in Guids(store0.items) =>
                store.items[i].ParentId \in Guids(store.items)

\* C8: after a committed pruning of a well-formed tree whose closure rows were the
\* transitive closure of its parent edges, the closure rows are the transitive
\* closure of the remaining parent edges.
C8_ClosureKept ==
    (pc = "done" /\ WellFormedTree(store0.items) /\ store0.anc = Closure(store0.items)) =>
        store.anc = Closure(store.items)

====
